---- MODULE Spec2Model ----
(***************************************************************************)
(* A model of stillmatic/supremes: the fetch-or-cache loader of            *)
(* supremes/helpers.py and the entity classes of supremes/models.py        *)
(* (Person identity, Decision winning-party resolution, Case.from_json's   *)
(* optional lists and Case.get_transcript_df's join and aggregation).      *)
(***************************************************************************)
EXTENDS Integers, Sequences, FiniteSets, TLC

VARIABLES
    cache,      \* the cache directory: path -> file
    ret,        \* what the last load_from_remote call did and returned
    hist,       \* per URL, what the calls made so far have shown
    pa, pb,     \* two Person-family values (pb may be None)
    cmp,        \* the results of comparing and hashing pa and pb
    decIn,      \* the arguments a Decision is built from
    built_decision, \* the Decision built
    caseDoc,    \* the case document given to Case.from_json
    built,      \* what Case.from_json made of it
    case,       \* a built Case
    df          \* what get_transcript_df returned for it

cacheVars == <<cache, ret, hist>>

personVars == <<pa, pb, cmp>>

decisionVars == <<decIn, built_decision>>

buildVars == <<caseDoc, built>>

joinVars == <<case, df>>

vars == <<cache, ret, hist, pa, pb, cmp, decIn, built_decision, caseDoc, built, case, df>>

(***************************************************************************)
(* Bounds of the model.                                                    *)
(***************************************************************************)
\* calls of load_from_remote made in a behaviour
MaxCalls == 4

(***************************************************************************)
(* JSON text and documents (rapidjson.loads / rapidjson.dump).             *)
(* A text is a sequence of one-character strings.  A document is a record  *)
(* [kind, num, items]: null, a non-negative integer, or an array of        *)
(* scalars.                                                                *)
(***************************************************************************)
DigitChars == <<"0", "1", "2", "3", "4", "5", "6", "7", "8", "9">>

IsDigit(ch) == \E d \in 1..10 : DigitChars[d] = ch

DigitVal(ch) == (CHOOSE d \in 1..10 : DigitChars[d] = ch) - 1

IsWs(ch) == ch \in {" ", "\n"}

NullText == <<"n", "u", "l", "l">>

JNull == [kind |-> "null", num |-> 0]

JNum(n) == [kind |-> "num", num |-> n]

DocOf(scalar) == [kind |-> scalar.kind, num |-> scalar.num, items |-> <<>>]

DocArr(items) == [kind |-> "arr", num |-> 0, items |-> items]

NoDoc == [kind |-> "none", num |-> 0, items |-> <<>>]

RECURSIVE SkipWs(_, _)
SkipWs(t, i) ==
    IF i <= Len(t) /\ IsWs(t[i]) THEN SkipWs(t, i + 1) ELSE i

RECURSIVE NumEnd(_, _)
\* index just past the run of digits that starts at i
NumEnd(t, i) ==
    IF i <= Len(t) /\ IsDigit(t[i]) THEN NumEnd(t, i + 1) ELSE i

RECURSIVE DecVal(_)
DecVal(ds) ==
    IF ds = <<>> THEN 0
    ELSE 10 * DecVal(SubSeq(ds, 1, Len(ds) - 1)) + DigitVal(ds[Len(ds)])

ParseFail == [ok |-> FALSE, val |-> JNull, next |-> 0]

\* a scalar at index i: null, or an integer without a leading zero
ParseScalar(t, i) ==
    IF i + 3 <= Len(t) /\ SubSeq(t, i, i + 3) = NullText
    THEN [ok |-> TRUE, val |-> JNull, next |-> i + 4]
    ELSE IF i <= Len(t) /\ IsDigit(t[i])
    THEN IF t[i] = "0"
         THEN [ok |-> TRUE, val |-> JNum(0), next |-> i + 1]
         ELSE LET e == NumEnd(t, i)
              IN  [ok |-> TRUE, val |-> JNum(DecVal(SubSeq(t, i, e - 1))), next |-> e]
    ELSE ParseFail

RECURSIVE ParseItems(_, _, _)
\* the rest of an array after one element: ("," element)* "]"
ParseItems(t, i, acc) ==
    LET j == SkipWs(t, i)
    IN  IF j > Len(t) THEN [ok |-> FALSE, items |-> <<>>, next |-> 0]
        ELSE IF t[j] = "]" THEN [ok |-> TRUE, items |-> acc, next |-> j + 1]
        ELSE IF t[j] = ","
        THEN LET s == ParseScalar(t, SkipWs(t, j + 1))
             IN  IF s.ok THEN ParseItems(t, s.next, Append(acc, s.val))
                 ELSE [ok |-> FALSE, items |-> <<>>, next |-> 0]
        ELSE [ok |-> FALSE, items |-> <<>>, next |-> 0]

ParseValue(t, i) ==
    IF i <= Len(t) /\ t[i] = "["
    THEN LET j == SkipWs(t, i + 1)
         IN  IF j <= Len(t) /\ t[j] = "]"
             THEN [ok |-> TRUE, doc |-> DocArr(<<>>), next |-> j + 1]
             ELSE LET s == ParseScalar(t, j)
                      r == ParseItems(t, s.next, <<s.val>>)
                  IN  IF s.ok /\ r.ok
                      THEN [ok |-> TRUE, doc |-> DocArr(r.items), next |-> r.next]
                      ELSE [ok |-> FALSE, doc |-> NoDoc, next |-> 0]
    ELSE LET s == ParseScalar(t, i)
         IN  IF s.ok THEN [ok |-> TRUE, doc |-> DocOf(s.val), next |-> s.next]
             ELSE [ok |-> FALSE, doc |-> NoDoc, next |-> 0]

\* rapidjson.loads: one value, white space around it, nothing else
Loads(t) ==
    LET v == ParseValue(t, SkipWs(t, 1))
    IN  IF v.ok /\ SkipWs(t, v.next) = Len(t) + 1
        THEN [ok |-> TRUE, doc |-> v.doc]
        ELSE [ok |-> FALSE, doc |-> NoDoc]

RECURSIVE DumpNum(_)
DumpNum(n) ==
    IF n < 10 THEN <<DigitChars[n + 1]>>
    ELSE DumpNum(n \div 10) \o <<DigitChars[(n % 10) + 1]>>

DumpScalar(s) == IF s.kind = "null" THEN NullText ELSE DumpNum(s.num)

RECURSIVE DumpItems(_)
DumpItems(items) ==
    IF items = <<>> THEN <<>>
    ELSE IF Len(items) = 1 THEN DumpScalar(items[1])
    ELSE DumpScalar(items[1]) \o <<",">> \o DumpItems(Tail(items))

\* rapidjson.dump: compact, no white space
Dump(doc) ==
    IF doc.kind = "arr" THEN <<"[">> \o DumpItems(doc.items) \o <<"]">>
    ELSE DumpScalar(doc)

(***************************************************************************)
(* helpers.py: the cache directory and load_from_remote.                   *)
(***************************************************************************)
PATH == "D:/code/supremes/oyez/downloaded"

\* the URLs the callers build: Case.from_id, Transcript.from_id
URLS == { "https://api.oyez.org/cases/2019/18-1",
          "https://api.oyez.org/case_media/oral_argument_audio/24931" }

\* hashlib.sha1(url.encode("utf-8")).hexdigest(), tabulated on URLS
Sha1Hex(url) ==
    CASE url = "https://api.oyez.org/cases/2019/18-1"
           -> "1cd726b5df74e4462c918d14a18a4b0f59341ed0"
      [] url = "https://api.oyez.org/case_media/oral_argument_audio/24931"
           -> "88693a5ff9ffc791277df59d7595897d748a3317"

DesiredPath(url) == PATH \o "/" \o Sha1Hex(url) \o ".json"

Paths == { DesiredPath(u) : u \in URLS }

NoFile == [exists |-> FALSE, text |-> <<>>]

File(text) == [exists |-> TRUE, text |-> text]

\* what requests.get(url).content can do: raise, or return a body, which
\* need not be JSON and need not be the body of an earlier call
NetBodies ==
    { <<"[", "1", ",", " ", "2", "0", "]">>,
      <<" ", "[", "]", "\n">>,
      <<"n", "u", "l", "l">>,
      <<"[", "1", ",">> }

NetOutcomes ==
    { [raises |-> TRUE, content |-> <<>>] }
      \cup { [raises |-> FALSE, content |-> b] : b \in NetBodies }

\* what a cache file can hold when the process starts: a document an
\* earlier run dumped, or a file cut short by an interrupted run
InitialFiles ==
    { NoFile, File(Dump(DocArr(<<JNum(7)>>))), File(<<"[", "7">>) }

\* a hit that ignores the cache
CacheHitNever(c, path, overwrite) == FALSE

\* glob.glob(desired_path) and not overwrite
CacheHit(c, path, overwrite) == c[path].exists /\ ~overwrite

\* a write that clears the rest of the directory
WriteFileAlone(c, path, text) ==
    [q \in DOMAIN c |-> IF q = path THEN File(text) ELSE NoFile]

\* open(desired_path, "w") ... rapidjson.dump(res, f)
WriteFile(c, path, text) == [c EXCEPT ![path] = File(text)]

\* the file opened for writing before the response is fetched and parsed
MissOpensFirst(c, path, net) ==
    IF net.raises
    THEN [cache |-> WriteFile(c, path, <<>>), status |-> "NetworkError",
          doc |-> NoDoc, net |-> 1]
    ELSE LET res == Loads(net.content)
         IN  IF res.ok
             THEN [cache |-> WriteFile(c, path, Dump(res.doc)), status |-> "ok",
                   doc |-> res.doc, net |-> 1]
             ELSE [cache |-> WriteFile(c, path, <<>>), status |-> "ParseError",
                   doc |-> NoDoc, net |-> 1]

\* the else branch: fetch, parse, write, return
Miss(c, path, net) ==
    IF net.raises
    THEN [cache |-> c, status |-> "NetworkError", doc |-> NoDoc, net |-> 1]
    ELSE LET res == Loads(net.content)
         IN  IF res.ok
             THEN [cache |-> WriteFile(c, path, Dump(res.doc)), status |-> "ok",
                   doc |-> res.doc, net |-> 1]
             ELSE [cache |-> c, status |-> "ParseError", doc |-> NoDoc, net |-> 1]

\* the if branch: read the file and parse it
Hit(c, path) ==
    LET res == Loads(c[path].text)
    IN  IF res.ok
        THEN [cache |-> c, status |-> "ok", doc |-> res.doc, net |-> 0]
        ELSE [cache |-> c, status |-> "ParseError", doc |-> NoDoc, net |-> 0]

load_from_remote(c, url, overwrite, net) ==
    LET desired_path == DesiredPath(url)
    IN  IF CacheHit(c, desired_path, overwrite)
        THEN Hit(c, desired_path)
        ELSE Miss(c, desired_path, net)

NoCall == [url |-> "", overwrite |-> FALSE, status |-> "none", doc |-> NoDoc, net |-> 0,
           content |-> <<>>]

NoHist == [calls |-> 0, netCalls |-> 0, pure |-> TRUE, firstDoc |-> NoDoc,
           hadFile |-> FALSE, netAfterFirst |-> FALSE]

\* an empty cache directory, and no call made yet
EmptyCache == [p \in Paths |-> NoFile]

NoHistory == [u \in URLS |-> NoHist]

RECURSIVE CallsMade(_, _)
\* the calls made so far for the URLs of S
CallsMade(h, S) ==
    IF S = {} THEN 0
    ELSE LET u == CHOOSE x \in S : TRUE IN h[u].calls + CallsMade(h, S \ {u})

\* one call of load_from_remote(url, overwrite) by the process; ret is what
\* the caller gets (and the body the network gave, if it was asked), hist
\* what an observer of the calls for url has seen
LoadFromRemote(url, overwrite, net) ==
    /\ CallsMade(hist, URLS) < MaxCalls
    /\ \E r \in {load_from_remote(cache, url, overwrite, net)} :
       LET h == hist[url]
       IN  /\ cache' = r.cache
           /\ ret' = [url |-> url, overwrite |-> overwrite, status |-> r.status,
                      doc |-> r.doc, net |-> r.net,
                      content |-> IF r.net = 1 THEN net.content ELSE <<>>]
           /\ hist' = [hist EXCEPT ![url] =
                  [calls |-> h.calls + 1,
                   netCalls |-> h.netCalls + r.net,
                   pure |-> h.pure /\ r.status = "ok" /\ ~overwrite,
                   firstDoc |-> IF h.calls = 0 THEN r.doc ELSE h.firstDoc,
                   hadFile |-> IF h.calls = 0 THEN cache[DesiredPath(url)].exists
                               ELSE h.hadFile,
                   netAfterFirst |-> h.netAfterFirst \/ (h.calls > 0 /\ r.net = 1)]]

(***************************************************************************)
(* Python strings, as sequences of code points.                            *)
(***************************************************************************)
\* longest name of a person
MaxNameLen == 2

\* longest party name and raw winning-party string
MaxPartyLen == 2

\* "A", "B", "a", "b"
NameChars == {65, 66, 97, 98}

StringsOver(chars, n) == UNION { [1..k -> chars] : k \in 0..n }

\* str.lower() on ASCII
Lower(s) == [i \in 1..Len(s) |-> IF s[i] >= 65 /\ s[i] <= 90 THEN s[i] + 32 ELSE s[i]]

RECURSIVE StrLess(_, _)
\* str < str: the first differing code point decides, a proper prefix is less
StrLess(s, t) ==
    IF t = <<>> THEN FALSE
    ELSE IF s = <<>> THEN TRUE
    ELSE IF s[1] < t[1] THEN TRUE
    ELSE IF s[1] > t[1] THEN FALSE
    ELSE StrLess(Tail(s), Tail(t))

RECURSIVE StrHash(_)
\* hash(str): a function of the string's content alone, fixed for the process
StrHash(s) ==
    IF s = <<>> THEN 7
    ELSE (31 * StrHash(SubSeq(s, 1, Len(s) - 1)) + s[Len(s)]) % 65521

\* x in y for strings: x occurs in y as a contiguous run
Contains(y, x) ==
    \E i \in 0..(Len(y) - Len(x)) : SubSeq(y, i + 1, i + Len(x)) = x

\* an optional string: None, or a str
NoneStr == [isNone |-> TRUE, s |-> <<>>]

Str(s) == [isNone |-> FALSE, s |-> s]

\* truth value of an optional string: None and "" are falsy
Truthy(v) == ~v.isNone /\ v.s /= <<>>

(***************************************************************************)
(* models.py: Person, Advocate, Justice.  Only id and name are kept of the *)
(* fields; cls is the class of the value.                                  *)
(***************************************************************************)
PersonClasses == {"Person", "Advocate", "Justice"}

Person(cls, id, name) == [cls |-> cls, id |-> id, name |-> name]

\* None where a Person is expected
NonePerson == [cls |-> "None", id |-> 0, name |-> <<>>]

Names == StringsOver(NameChars, MaxNameLen)

Persons == { Person(c, i, n) : c \in PersonClasses, i \in {1, 2}, n \in Names }

\* Person.__repr__
PersonRepr(p) == p.name

\* Person.__lt__
PersonLt(a, b) == StrLess(Lower(a.name), Lower(b.name))

\* an equality that folds letter case, as __lt__ does
PersonEqFoldsCase(a, other) ==
    IF other.cls = "None" THEN FALSE ELSE Lower(a.name) = Lower(other.name)

\* Person.__eq__
PersonEq(a, other) ==
    IF other.cls = "None" THEN FALSE ELSE a.name = other.name

\* a hash of the object rather than of its name
PersonHashById(p) == p.id

\* Person.__hash__
PersonHash(p) == StrHash(PersonRepr(p))

NotCompared == [done |-> FALSE, eq |-> FALSE, eqBA |-> FALSE, lt |-> FALSE,
                ltBA |-> FALSE, hashA |-> 0, hashB |-> 0]

SomePerson == Person("Person", 1, <<>>)

\* pa == pb, pb == pa, pa < pb, pb < pa, hash(pa), hash(pb); None has no
\* name to order by and is hashed by no Person method
Compare ==
    /\ ~cmp.done
    /\ cmp' = [done |-> TRUE,
               eq |-> PersonEq(pa, pb),
               eqBA |-> IF pb.cls = "None" THEN PersonEq(pa, pb) ELSE PersonEq(pb, pa),
               lt |-> IF pb.cls = "None" THEN FALSE ELSE PersonLt(pa, pb),
               ltBA |-> IF pb.cls = "None" THEN FALSE ELSE PersonLt(pb, pa),
               hashA |-> PersonHash(pa),
               hashB |-> IF pb.cls = "None" THEN 0 ELSE PersonHash(pb)]
    /\ UNCHANGED <<pa, pb>>

(***************************************************************************)
(* models.py: Decision.                                                    *)
(***************************************************************************)
\* "A", "a", "b"
PartyChars == {65, 97, 98}

PartyStrings == StringsOver(PartyChars, MaxPartyLen)

\* data["first_party_label"], data["second_party_label"]: "P", "R"
FirstPartyLabel == <<80>>

SecondPartyLabel == <<82>>

\* a resolution that tries the second party first
ResolveSecondFirst(winning_party, first_party, second_party, first_party_label, second_party_label) ==
    IF Truthy(winning_party)
    THEN IF Contains(second_party, winning_party.s) THEN Str(second_party_label)
         ELSE IF Contains(first_party, winning_party.s) THEN Str(first_party_label)
         ELSE NoneStr
    ELSE NoneStr

\* Decision.__init__, lines 375-381: self.winning_party
Resolve(winning_party, first_party, second_party, first_party_label, second_party_label) ==
    IF Truthy(winning_party)
    THEN IF Contains(first_party, winning_party.s) THEN Str(first_party_label)
         ELSE IF Contains(second_party, winning_party.s) THEN Str(second_party_label)
         ELSE NoneStr
    ELSE NoneStr

\* Decision.__init__; ballots is a sequence of Ballots, None being <<>>
\* with hasBallots FALSE
DecisionInit(hasBallots, ballots, winning_party, first_party, second_party, first_party_label, second_party_label) ==
    [hasBallots |-> hasBallots,
     ballots |-> ballots,
     winning_party |-> Resolve(winning_party, first_party, second_party,
                               first_party_label, second_party_label),
     winning_party_name |-> winning_party]

\* Decision.from_json, lines 393 and 397-398
WinningPartyOf(raw) == IF Truthy(raw) THEN raw ELSE NoneStr

\* Decision.from_json on a document whose "votes" is null
DecisionFromJson(raw, first_party, second_party, first_party_label, second_party_label) ==
    DecisionInit(FALSE, <<>>, WinningPartyOf(raw), first_party, second_party,
                 first_party_label, second_party_label)

NoDecisionBuilt == [via |-> "none", hasBallots |-> FALSE, ballots |-> <<>>,
                    winning_party |-> NoneStr, winning_party_name |-> NoneStr]

Via(via, d) == [via |-> via, hasBallots |-> d.hasBallots, ballots |-> d.ballots,
                winning_party |-> d.winning_party,
                winning_party_name |-> d.winning_party_name]

DecisionInputs ==
    [w : {NoneStr} \cup { Str(s) : s \in PartyStrings },
     first_party : PartyStrings,
     second_party : PartyStrings]

NoDecisionInput == [w |-> NoneStr, first_party |-> <<>>, second_party |-> <<>>]

\* Decision.from_json(data, ...) with data["winning_party"] = decIn.w
BuildFromJson ==
    /\ built_decision.via = "none"
    /\ built_decision' = Via("from_json",
                       DecisionFromJson(decIn.w, decIn.first_party, decIn.second_party,
                                        FirstPartyLabel, SecondPartyLabel))
    /\ UNCHANGED decIn

\* Decision(None, decIn.w, ...) called directly
BuildDirect ==
    /\ built_decision.via = "none"
    /\ built_decision' = Via("__init__",
                       DecisionInit(FALSE, <<>>, decIn.w, decIn.first_party,
                                    decIn.second_party, FirstPartyLabel, SecondPartyLabel))
    /\ UNCHANGED decIn

(***************************************************************************)
(* models.py: Case.from_json and its five optional lists.  A JSON value    *)
(* of the document is a record [has, isNull, items]: the key may be        *)
(* missing, the value null, or a list.  The elements of a list are kept    *)
(* as opaque identifiers, and the element builders (Advocate.from_json,    *)
(* Transcript.from_id, Court.from_json, Decision.from_json) as succeeding. *)
(***************************************************************************)
\* longest list in a case document
MaxItems == 2

ListKeys == <<"advocates", "oral_argument_audio", "decided_by", "heard_by", "decisions">>

JMissing == [has |-> FALSE, isNull |-> FALSE, items |-> <<>>]

JNullValue == [has |-> TRUE, isNull |-> TRUE, items |-> <<>>]

JList(items) == [has |-> TRUE, isNull |-> FALSE, items |-> items]

JListValues == {JMissing, JNullValue} \cup { JList([i \in 1..k |-> i]) : k \in 0..MaxItems }

\* truth value of data[key]: null and [] are falsy
JTruthy(v) == ~v.isNull /\ v.items /= <<>>

Absent == [present |-> FALSE, items |-> <<>>]

Present(items) == [present |-> TRUE, items |-> items]

\* a test for null alone, which lets an empty list through
BuildListIfNotNull(v, cls) ==
    IF ~v.isNull
    THEN Present([i \in 1..Len(v.items) |-> [cls |-> cls, src |-> v.items[i]]])
    ELSE Absent

\* if data[key]: [X.from_json(e) for e in data[key]]  else: None
BuildList(v, cls) ==
    IF JTruthy(v)
    THEN Present([i \in 1..Len(v.items) |-> [cls |-> cls, src |-> v.items[i]]])
    ELSE Absent

NotBuilt == [status |-> "none", missing |-> "", decisions |-> Absent, advocates |-> Absent,
             heard_by |-> Absent, decided_by |-> Absent, transcripts |-> Absent]

\* the first key, in the order from_json reads them, that data lacks
FirstMissing(data) ==
    LET i == CHOOSE j \in 1..Len(ListKeys) :
                 /\ ~data[ListKeys[j]].has
                 /\ \A k \in 1..(j - 1) : data[ListKeys[k]].has
    IN  ListKeys[i]

\* Case.from_json: data[key] raises KeyError for a key that is missing
CaseFromJson(data) ==
    IF \E j \in 1..Len(ListKeys) : ~data[ListKeys[j]].has
    THEN [NotBuilt EXCEPT !.status = "KeyError", !.missing = FirstMissing(data)]
    ELSE [status |-> "ok",
          missing |-> "",
          decisions |-> BuildList(data["decisions"], "Decision"),
          advocates |-> BuildList(data["advocates"], "Advocate"),
          heard_by |-> BuildList(data["heard_by"], "Court"),
          decided_by |-> BuildList(data["decided_by"], "Court"),
          transcripts |-> BuildList(data["oral_argument_audio"], "Transcript")]

CaseDocs == [{ListKeys[j] : j \in 1..Len(ListKeys)} -> JListValues]

NullCaseDoc == [k \in {ListKeys[j] : j \in 1..Len(ListKeys)} |-> JNullValue]

\* Case.from_json(caseDoc)
FromJson ==
    /\ built.status = "none"
    /\ built' = CaseFromJson(caseDoc)
    /\ UNCHANGED caseDoc

(***************************************************************************)
(* models.py: Case.get_transcript_df.  A table is a sequence of rows.      *)
(* A Case keeps term, docket_number, decisions and transcripts; a text is  *)
(* a sequence of words (numbers), the space between two words being 0.     *)
(***************************************************************************)
\* decisions of a case, and ballots of all its decisions together
MaxDecisions == 2

MaxBallots == 2

\* transcripts of a case, and utterances of all its transcripts together
MaxTranscripts == 2

MaxUtterances == 3

\* "A", "a": two justices whose names differ in letter case only
VoterNames == {<<65>>, <<97>>}

Voters == { Person("Justice", 1, n) : n \in VoterNames }

\* a turn's speaker: one of the two names, or None
Speakers == { Person("Person", 1, n) : n \in VoterNames } \cup {NonePerson}

RECURSIVE ListsOfLists(_, _, _)
\* the sequences of k lists over S that hold at most budget elements together
ListsOfLists(S, k, budget) ==
    IF k = 0 THEN {<<>>}
    ELSE UNION { { <<x>> \o r : r \in ListsOfLists(S, k - 1, budget - Len(x)) } :
                 x \in StringsOver(S, budget) }

\* Ballot(voter, vote); the ballots of a case all carry different votes
MkBallots(voters, d) ==
    [i \in 1..Len(voters) |-> [voter |-> voters[i], vote |-> <<d, i>>]]

\* a Decision as Decision.from_json leaves it: ballots None or non-empty
MkDecision(voters, d) ==
    DecisionInit(voters /= <<>>, MkBallots(voters, d), NoneStr, <<>>, <<>>,
                 FirstPartyLabel, SecondPartyLabel)

\* Transcript(id, title, utterances); the utterances all carry different texts
MkTranscript(speakers, t) ==
    [id |-> t,
     utterances |-> [i \in 1..Len(speakers) |->
                        [speaker |-> speakers[i], text |-> <<10 * t + i>>]]]

DecisionFields ==
    {Absent} \cup
    { Present([d \in 1..Len(l) |-> MkDecision(l[d], d)]) :
        l \in UNION { ListsOfLists(Voters, k, MaxBallots) : k \in 1..MaxDecisions } }

TranscriptFields ==
    {Absent} \cup
    { Present([t \in 1..Len(l) |-> MkTranscript(l[t], t)]) :
        l \in UNION { ListsOfLists(Speakers, k, MaxUtterances) : k \in 1..MaxTranscripts } }

Cases ==
    [term : {2019}, docket_number : {"18-1"},
     decisions : DecisionFields, transcripts : TranscriptFields]

\* not x, for an optional list
Falsy(field) == ~field.present \/ field.items = <<>>

RECURSIVE Flatten(_)
\* pd.concat of a list of tables
Flatten(tables) ==
    IF tables = <<>> THEN <<>> ELSE tables[1] \o Flatten(Tail(tables))

\* keys that match when their names match in any letter case
KeyMatchFoldsCase(l, r) ==
    IF l.cls = "None" \/ r.cls = "None" THEN l.cls = r.cls
    ELSE PersonEqFoldsCase(l, r)

\* two join or group keys are the same key: the hash table pandas keeps the
\* objects in compares hash and ==, and takes missing keys as one key
KeyMatch(l, r) ==
    IF l.cls = "None" \/ r.cls = "None" THEN l.cls = r.cls
    ELSE PersonHash(l) = PersonHash(r) /\ PersonEq(l, r)

\* lines 50-52
VoteDf(decision) ==
    [i \in 1..Len(decision.ballots) |->
        [voter |-> decision.ballots[i].voter, vote |-> decision.ballots[i].vote]]

\* lines 60-65
SpeechDf(transcript) ==
    [i \in 1..Len(transcript.utterances) |->
        [speaker |-> transcript.utterances[i].speaker,
         text |-> transcript.utterances[i].text]]

\* the rows an inner merge makes of left row i: one per matching right row
RowsFor(speech_df, vote_df, i) ==
    LET m == SelectSeq(vote_df, LAMBDA v : KeyMatch(speech_df[i].speaker, v.voter))
    IN  [j \in 1..Len(m) |->
            [speaker |-> speech_df[i].speaker, text |-> speech_df[i].text,
             vote |-> m[j].vote]]

\* pandas from 2.2 on: the rows of the left table in their order
MergeLeftOrder(speech_df, vote_df) ==
    Flatten([i \in 1..Len(speech_df) |-> RowsFor(speech_df, vote_df, i)])

\* pandas before 2.2: key by key, the keys in the order the left table first
\* shows them, and under one key the rows of the left table in their order
MergeKeyOrder(speech_df, vote_df) ==
    Flatten([i \in 1..Len(speech_df) |->
        IF \E h \in 1..(i - 1) : KeyMatch(speech_df[h].speaker, speech_df[i].speaker)
        THEN <<>>
        ELSE Flatten([k \in 1..Len(speech_df) |->
                 IF k >= i /\ KeyMatch(speech_df[k].speaker, speech_df[i].speaker)
                 THEN RowsFor(speech_df, vote_df, k)
                 ELSE <<>>])])

\* speech_df.merge(vote_df, left_on="speaker", right_on="voter")
\* [["speaker", "text", "vote"]]; the order of the rows is the one the
\* installed pandas gives an inner merge
Merge(speech_df, vote_df, leftOrder) ==
    IF leftOrder THEN MergeLeftOrder(speech_df, vote_df)
    ELSE MergeKeyOrder(speech_df, vote_df)

\* lines 54-57: no transcripts, one row per ballot with an empty text
VoteRows(vote_df) ==
    [i \in 1..Len(vote_df) |->
        [speaker |-> vote_df[i].voter, text |-> <<>>, vote |-> vote_df[i].vote]]

RECURSIVE TranscriptFrames(_, _, _, _)
\* lines 59-69 from transcript t on; an empty speech_df has no column
\* "speaker" and merge raises KeyError
TranscriptFrames(transcripts, vote_df, t, leftOrder) ==
    IF t > Len(transcripts) THEN [status |-> "ok", rows |-> <<>>]
    ELSE IF transcripts[t].utterances = <<>> THEN [status |-> "KeyError", rows |-> <<>>]
    ELSE LET rest == TranscriptFrames(transcripts, vote_df, t + 1, leftOrder)
         IN  IF rest.status = "ok"
             THEN [status |-> "ok",
                   rows |-> Merge(SpeechDf(transcripts[t]), vote_df, leftOrder) \o rest.rows]
             ELSE rest

\* the frames of one decision, lines 50-69
FramesOf(self, decision, leftOrder) ==
    IF Falsy(self.transcripts)
    THEN [status |-> "ok", rows |-> VoteRows(VoteDf(decision))]
    ELSE TranscriptFrames(self.transcripts.items, VoteDf(decision), 1, leftOrder)

RECURSIVE DecisionFrames(_, _, _)
\* a loop that stops after the first decision
FirstDecisionFrames(self, d, leftOrder) ==
    IF d > 1 THEN [status |-> "ok", rows |-> <<>>]
    ELSE IF ~self.decisions.items[d].hasBallots \/ self.decisions.items[d].ballots = <<>>
    THEN [status |-> "None", rows |-> <<>>]
    ELSE FramesOf(self, self.decisions.items[d], leftOrder)

\* the loop of line 47 from decision d on: dfs, or the return or the raise
\* that ends it
DecisionFrames(self, d, leftOrder) ==
    IF d > Len(self.decisions.items) THEN [status |-> "ok", rows |-> <<>>]
    ELSE IF ~self.decisions.items[d].hasBallots \/ self.decisions.items[d].ballots = <<>>
    THEN [status |-> "None", rows |-> <<>>]
    ELSE LET here == FramesOf(self, self.decisions.items[d], leftOrder)
         IN  IF here.status /= "ok" THEN here
             ELSE LET rest == DecisionFrames(self, d + 1, leftOrder)
                  IN  IF rest.status = "ok"
                      THEN [status |-> "ok", rows |-> here.rows \o rest.rows]
                      ELSE rest

\* lines 71-72 and the column order of line 80
WithCaseColumns(rows, self) ==
    [i \in 1..Len(rows) |->
        [speaker |-> rows[i].speaker, term |-> self.term,
         docket_number |-> self.docket_number,
         text |-> rows[i].text, vote |-> rows[i].vote]]

RECURSIVE JoinSpace(_)
\* " ".join(x)
JoinSpace(texts) ==
    IF texts = <<>> THEN <<>>
    ELSE IF Len(texts) = 1 THEN texts[1]
    ELSE texts[1] \o <<0>> \o JoinSpace(Tail(texts))

\* an aggregation that takes the last vote of the group
AggLast(votes) == votes[Len(votes)]

\* "first"
AggFirst(votes) == votes[1]

SameGroup(r1, r2) ==
    /\ KeyMatch(r1.speaker, r2.speaker)
    /\ r1.term = r2.term
    /\ r1.docket_number = r2.docket_number

\* the row of the group that row i of df opens
GroupRow(df_, i) ==
    LET members == SelectSeq([k \in 1..Len(df_) |-> k], LAMBDA k : SameGroup(df_[k], df_[i]))
    IN  [speaker |-> df_[i].speaker, term |-> df_[i].term,
         docket_number |-> df_[i].docket_number,
         text |-> JoinSpace([k \in 1..Len(members) |-> df_[members[k]].text]),
         vote |-> AggFirst([k \in 1..Len(members) |-> df_[members[k]].vote])]

\* lines 75-77: one row per group; groupby drops rows whose key is missing.
\* The order of the groups is left open: the result is the set of its rows.
GroupBy(df_) ==
    { GroupRow(df_, i) :
        i \in { k \in 1..Len(df_) :
                  /\ df_[k].speaker.cls /= "None"
                  /\ \A h \in 1..(k - 1) : ~SameGroup(df_[h], df_[k]) } }

NotCalled == [status |-> "none", groupby |-> FALSE, leftOrder |-> FALSE,
              rows |-> <<>>, groups |-> {}]

\* Case.get_transcript_df(self, groupby).  status "None": returned None;
\* "KeyError": raised; "ok": returned a table, which is rows when groupby is
\* False and groups when it is True (rows being then the local df).
\* leftOrder tells which pandas ran the merges.
get_transcript_df(self, groupby, leftOrder) ==
    IF Falsy(self.decisions)
    THEN [NotCalled EXCEPT !.status = "None", !.groupby = groupby,
                           !.leftOrder = leftOrder]
    ELSE LET dfs == DecisionFrames(self, 1, leftOrder)
         IN  IF dfs.status /= "ok"
             THEN [NotCalled EXCEPT !.status = dfs.status, !.groupby = groupby,
                                    !.leftOrder = leftOrder]
             ELSE [status |-> "ok",
                   groupby |-> groupby,
                   leftOrder |-> leftOrder,
                   rows |-> WithCaseColumns(dfs.rows, self),
                   groups |-> IF groupby THEN GroupBy(WithCaseColumns(dfs.rows, self))
                              ELSE {}]

EmptyCase ==
    [term |-> 2019, docket_number |-> "18-1", decisions |-> Absent, transcripts |-> Absent]

\* case.get_transcript_df(groupby), under either pandas
GetTranscriptDf(groupby, leftOrder) ==
    /\ df.status = "none"
    /\ \E r \in {get_transcript_df(case, groupby, leftOrder)} : df' = r
    /\ UNCHANGED case

(***************************************************************************)
(* The specifications: one per part of the program.                        *)
(***************************************************************************)
NextCache ==
    /\ \E url \in URLS, overwrite \in BOOLEAN, net \in NetOutcomes :
           LoadFromRemote(url, overwrite, net)
    /\ UNCHANGED <<personVars, decisionVars, buildVars, joinVars>>

InitCache ==
    /\ cache \in [Paths -> InitialFiles]
    /\ ret = NoCall
    /\ hist = NoHistory
    /\ pa = SomePerson
    /\ pb = NonePerson
    /\ cmp = NotCompared
    /\ decIn = NoDecisionInput
    /\ built_decision = NoDecisionBuilt
    /\ caseDoc = NullCaseDoc
    /\ built = NotBuilt
    /\ case = EmptyCase
    /\ df = NotCalled

SpecCache == InitCache /\ [][NextCache]_vars

NextPerson ==
    /\ Compare
    /\ UNCHANGED <<cacheVars, decisionVars, buildVars, joinVars>>

InitPerson ==
    /\ cache = EmptyCache
    /\ ret = NoCall
    /\ hist = NoHistory
    /\ pa \in Persons
    /\ pb \in Persons \cup {NonePerson}
    /\ cmp = NotCompared
    /\ decIn = NoDecisionInput
    /\ built_decision = NoDecisionBuilt
    /\ caseDoc = NullCaseDoc
    /\ built = NotBuilt
    /\ case = EmptyCase
    /\ df = NotCalled

SpecPerson == InitPerson /\ [][NextPerson]_vars

NextDecision ==
    /\ BuildFromJson \/ BuildDirect
    /\ UNCHANGED <<cacheVars, personVars, buildVars, joinVars>>

InitDecision ==
    /\ cache = EmptyCache
    /\ ret = NoCall
    /\ hist = NoHistory
    /\ pa = SomePerson
    /\ pb = NonePerson
    /\ cmp = NotCompared
    /\ decIn \in DecisionInputs
    /\ built_decision = NoDecisionBuilt
    /\ caseDoc = NullCaseDoc
    /\ built = NotBuilt
    /\ case = EmptyCase
    /\ df = NotCalled

SpecDecision == InitDecision /\ [][NextDecision]_vars

NextBuild ==
    /\ FromJson
    /\ UNCHANGED <<cacheVars, personVars, decisionVars, joinVars>>

InitBuild ==
    /\ cache = EmptyCache
    /\ ret = NoCall
    /\ hist = NoHistory
    /\ pa = SomePerson
    /\ pb = NonePerson
    /\ cmp = NotCompared
    /\ decIn = NoDecisionInput
    /\ built_decision = NoDecisionBuilt
    /\ caseDoc \in CaseDocs
    /\ built = NotBuilt
    /\ case = EmptyCase
    /\ df = NotCalled

SpecBuild == InitBuild /\ [][NextBuild]_vars

NextJoin ==
    /\ \E groupby \in BOOLEAN, leftOrder \in BOOLEAN : GetTranscriptDf(groupby, leftOrder)
    /\ UNCHANGED <<cacheVars, personVars, decisionVars, buildVars>>

InitJoin ==
    /\ cache = EmptyCache
    /\ ret = NoCall
    /\ hist = NoHistory
    /\ pa = SomePerson
    /\ pb = NonePerson
    /\ cmp = NotCompared
    /\ decIn = NoDecisionInput
    /\ built_decision = NoDecisionBuilt
    /\ caseDoc = NullCaseDoc
    /\ built = NotBuilt
    /\ case \in Cases
    /\ df = NotCalled

SpecJoin == InitJoin /\ [][NextJoin]_vars

(***************************************************************************)
(* The claims about load_from_remote, under SpecCache.                     *)
(***************************************************************************)
\* the step is a call of load_from_remote for url
Called(url) == hist'[url].calls = hist[url].calls + 1

\* C1: as long as every call made for a URL was a successful call with
\* overwrite=False, the network was asked at most once for it, on the first
\* call only and only if the first call found no cache file, and the call
\* that has just returned gave the document the first call gave.
C1_Idempotent ==
    \A u \in URLS :
        (hist[u].calls >= 1 /\ hist[u].pure) =>
            /\ hist[u].netCalls <= 1
            /\ ~hist[u].netAfterFirst
            /\ (hist[u].hadFile => hist[u].netCalls = 0)
            /\ (ret.url = u => ret.doc = hist[u].firstDoc)

\* a miss that fetched "[1, 20]", then a hit that read the dumped file back
C1_Witness ==
    \E u \in URLS :
        /\ hist[u].pure /\ hist[u].calls >= 2 /\ hist[u].netCalls = 1
        /\ ret.url = u /\ ret.net = 0 /\ ret.status = "ok"
        /\ ret.doc = DocArr(<<JNum(1), JNum(20)>>)

\* C2: a call that finds a file for sha1(u) and has overwrite=False asks
\* the network nothing and leaves the cache as it is; any other call asks
\* the network exactly once and, when it returns, has written the entry of
\* sha1(u), which then holds the fetched document; no call changes an entry
\* of another key and no call removes an entry.
C2_CacheEffect ==
    [][ \A u \in URLS :
          Called(u) =>
            LET p == DesiredPath(u)
                hit == cache[p].exists /\ ~ret'.overwrite
            IN  /\ ret'.url = u
                /\ hit => (ret'.net = 0 /\ cache' = cache
                           /\ hist'[u].netCalls = hist[u].netCalls)
                /\ ~hit => (ret'.net = 1 /\ hist'[u].netCalls = hist[u].netCalls + 1)
                /\ (~hit /\ ret'.status = "ok") =>
                       /\ cache'[p].exists
                       /\ Loads(cache'[p].text) = Loads(ret'.content)
                       /\ Loads(cache'[p].text) = [ok |-> TRUE, doc |-> ret'.doc]
                /\ \A q \in Paths \ {p} : cache'[q] = cache[q]
                /\ \A q \in Paths : cache[q].exists => cache'[q].exists
      ]_vars

\* an overwrite of an entry that existed, beside another entry that stays
C2_Witness ==
    /\ ret.status = "ok" /\ ret.overwrite /\ ret.net = 1
    /\ ret.url \in URLS
    /\ hist[ret.url].hadFile
    /\ cache[DesiredPath(ret.url)].text = <<"[", "1", ",", "2", "0", "]">>
    /\ \E q \in Paths \ {DesiredPath(ret.url)} : cache[q].exists

\* C10: a call whose fetch raises, or whose response does not parse, makes
\* its one network call and no other, and leaves every cache entry as it
\* was: none is created, and the entry an overwrite was to replace stays.
C10_FailureKeepsCache ==
    [][ \A u \in URLS :
          (Called(u) /\ ret'.net = 1 /\ ret'.status \in {"NetworkError", "ParseError"}) =>
              /\ cache' = cache
              /\ hist'[u].netCalls = hist[u].netCalls + 1
      ]_vars

\* an overwrite whose response did not parse, the old entry still readable
C10_Witness ==
    /\ ret.status = "ParseError" /\ ret.net = 1 /\ ret.overwrite
    /\ ret.url \in URLS
    /\ hist[ret.url].calls = 1 /\ hist[ret.url].hadFile
    /\ Loads(cache[DesiredPath(ret.url)].text).ok

(***************************************************************************)
(* The claims about Person, under SpecPerson.                              *)
(***************************************************************************)
\* s and t are the same string, character by character
SameString(s, t) == Len(s) = Len(t) /\ \A i \in 1..Len(s) : s[i] = t[i]

\* s comes before t: they agree on k characters, and then s ends and t
\* does not, or the next character of s is the smaller
ComesBefore(s, t) ==
    \E k \in 0..Len(s) :
        /\ k <= Len(t)
        /\ \A i \in 1..k : s[i] = t[i]
        /\ \/ k = Len(s) /\ k < Len(t)
           \/ k < Len(s) /\ k < Len(t) /\ s[k + 1] < t[k + 1]

\* the names differ, and in letter case only
DifferInCaseOnly(a, b) ==
    ~SameString(a.name, b.name) /\ SameString(Lower(a.name), Lower(b.name))

\* C6: for Person-family values a and b of any classes, a == b iff the
\* names are the same string, letter case included; a < b iff lower(a.name)
\* comes before lower(b.name), so for names that differ in case only
\* neither is less and they are not equal; equal values hash equal; and a
\* Person is never equal to None.
C6_PersonIdentity ==
    cmp.done =>
        IF pb.cls = "None" THEN ~cmp.eq /\ ~cmp.eqBA
        ELSE /\ cmp.eq <=> SameString(pa.name, pb.name)
             /\ cmp.eqBA <=> cmp.eq
             /\ cmp.lt <=> ComesBefore(Lower(pa.name), Lower(pb.name))
             /\ cmp.ltBA <=> ComesBefore(Lower(pb.name), Lower(pa.name))
             /\ DifferInCaseOnly(pa, pb) => (~cmp.lt /\ ~cmp.ltBA /\ ~cmp.eq)
             /\ cmp.eq => cmp.hashA = cmp.hashB

\* an Advocate "Ab" and a Justice "ab": not equal, neither less
C6_Witness ==
    /\ cmp.done
    /\ pa.cls = "Advocate" /\ pb.cls = "Justice"
    /\ pa.name = <<65, 98>> /\ pb.name = <<97, 98>>
    /\ ~cmp.eq /\ ~cmp.lt /\ ~cmp.ltBA

\* C7 as stated: two Justices whose names match when letter case is
\* ignored are equal and hash equal.
C7_EqualIgnoringCase ==
    (cmp.done /\ pa.cls = "Justice" /\ pb.cls = "Justice"
        /\ SameString(Lower(pa.name), Lower(pb.name)))
    => (cmp.eq /\ cmp.eqBA /\ cmp.hashA = cmp.hashB)

\* C7 as amended: two Justices, whatever their other fields, are equal and
\* hash equal when their names are the same string, and are not equal when
\* the names differ, be it in letter case only.
C7_EqualOnSameName ==
    (cmp.done /\ pa.cls = "Justice" /\ pb.cls = "Justice") =>
        /\ SameString(pa.name, pb.name) => (cmp.eq /\ cmp.eqBA /\ cmp.hashA = cmp.hashB)
        /\ ~SameString(pa.name, pb.name) => (~cmp.eq /\ ~cmp.eqBA)

\* two Justice objects with different ids and the name "Ab"
C7_Witness ==
    /\ cmp.done
    /\ pa.cls = "Justice" /\ pb.cls = "Justice" /\ pa.id /= pb.id
    /\ pa.name = <<65, 98>> /\ pb.name = <<65, 98>>
    /\ cmp.eq /\ cmp.hashA = cmp.hashB

(***************************************************************************)
(* The claim about Decision, under SpecDecision.                           *)
(***************************************************************************)
\* x occurs in y: at some offset every character of x is the one of y
OccursIn(x, y) ==
    \E i \in 1..(Len(y) - Len(x) + 1) : \A k \in 1..Len(x) : y[i + k - 1] = x[k]

\* the label the claim gives a non-empty raw string w
LabelFor(w, first_party, second_party) ==
    IF ~w.isNone /\ w.s /= <<>> /\ OccursIn(w.s, first_party) THEN Str(FirstPartyLabel)
    ELSE IF ~w.isNone /\ w.s /= <<>> /\ OccursIn(w.s, second_party)
    THEN Str(SecondPartyLabel)
    ELSE NoneStr

\* C8 as stated: winning_party is the first-party label if w is non-empty
\* and occurs in first_party, else the second-party label if it occurs in
\* second_party, else absent; and winning_party_name is the raw w, however
\* the Decision was built.
C8_KeepsRawName ==
    built_decision.via /= "none" =>
        /\ built_decision.winning_party
               = LabelFor(decIn.w, decIn.first_party, decIn.second_party)
        /\ built_decision.winning_party_name = decIn.w

\* C8 as amended: the same resolution; winning_party_name is the raw w,
\* except that Decision.from_json stores an empty raw string as None.
C8_KeepsRawNameUnlessEmpty ==
    built_decision.via /= "none" =>
        /\ built_decision.winning_party
               = LabelFor(decIn.w, decIn.first_party, decIn.second_party)
        /\ built_decision.winning_party_name =
               IF built_decision.via = "from_json" /\ ~decIn.w.isNone /\ decIn.w.s = <<>>
               THEN NoneStr
               ELSE decIn.w

\* from_json with w = "a", first party "ab", second party "a": both hold w
C8_Witness ==
    /\ built_decision.via = "from_json"
    /\ decIn.w = Str(<<97>>)
    /\ decIn.first_party = <<97, 98>> /\ decIn.second_party = <<97>>
    /\ built_decision.winning_party = Str(FirstPartyLabel)
    /\ built_decision.winning_party_name = Str(<<97>>)

(***************************************************************************)
(* The claim about Case.from_json, under SpecBuild.                        *)
(***************************************************************************)
\* the field of the Case that the key of the document fills
FieldOf(b, key) ==
    CASE key = "advocates" -> b.advocates
      [] key = "oral_argument_audio" -> b.transcripts
      [] key = "decided_by" -> b.decided_by
      [] key = "heard_by" -> b.heard_by
      [] key = "decisions" -> b.decisions

KeySet == { ListKeys[j] : j \in 1..Len(ListKeys) }

Decisions == case.decisions.items

Transcripts == case.transcripts.items

NoBallots(d) == ~Decisions[d].hasBallots \/ Decisions[d].ballots = <<>>

SomeTranscriptIsEmpty ==
    ~Falsy(case.transcripts) /\ \E t \in 1..Len(Transcripts) : Transcripts[t].utterances = <<>>

\* the speaker is a person and equals the voter under Person.__eq__
Matches(speaker, voter) == speaker.cls /= "None" /\ PersonEq(speaker, voter)

\* the row carries the vote of a ballot of decision d whose voter is its speaker
PairsBallotOf(row, d) ==
    \E i \in 1..Len(Decisions[d].ballots) :
        /\ row.vote = Decisions[d].ballots[i].vote
        /\ Matches(row.speaker, Decisions[d].ballots[i].voter)

\* the rows of the table the call returned
ResultRows == IF df.groupby THEN df.groups ELSE { df.rows[i] : i \in 1..Len(df.rows) }

OneDecisionAndTranscripts ==
    /\ ~Falsy(case.decisions) /\ Len(Decisions) = 1 /\ ~NoBallots(1)
    /\ ~Falsy(case.transcripts)

\* the (transcript, utterance, ballot) triples whose speaker equals the voter
MatchingPairs ==
    UNION { UNION { { <<t, j, i>> : i \in { b \in 1..Len(Decisions[1].ballots) :
                                       Matches(Transcripts[t].utterances[j].speaker,
                                               Decisions[1].ballots[b].voter) } } :
                    j \in 1..Len(Transcripts[t].utterances) } :
            t \in 1..Len(Transcripts) }

RowOfPair(p) ==
    [speaker |-> Transcripts[p[1]].utterances[p[2]].speaker,
     term |-> case.term,
     docket_number |-> case.docket_number,
     text |-> Transcripts[p[1]].utterances[p[2]].text,
     vote |-> Decisions[1].ballots[p[3]].vote]

\* one row for each matching pair, and no other row
ExactlyThePairs ==
    /\ \A r \in 1..Len(df.rows) : \E p \in MatchingPairs : df.rows[r] = RowOfPair(p)
    /\ \A p \in MatchingPairs : \E r \in 1..Len(df.rows) : df.rows[r] = RowOfPair(p)
    /\ Len(df.rows) = Cardinality(MatchingPairs)

\* the transcript of the row's utterance, and its place in all the utterances
TranscriptOf(row) == row.text[1] \div 10

PlaceOf(row) == row.text[1]

SameKey(r1, r2) ==
    /\ PersonEq(r1.speaker, r2.speaker)
    /\ r1.term = r2.term
    /\ r1.docket_number = r2.docket_number

\* the rows of the ungrouped table that fall in the group of g, in order
MembersOf(g) == SelectSeq([k \in 1..Len(df.rows) |-> k], LAMBDA k : SameKey(df.rows[k], g))

RECURSIVE OffsetOf(_, _)
\* where the k-th text starts in the texts joined with single spaces
OffsetOf(texts, k) ==
    IF k = 1 THEN 0 ELSE OffsetOf(texts, k - 1) + Len(texts[k - 1]) + 1

\* out is the texts in order, one space between each two
IsSpaceJoined(out, texts) ==
    /\ Len(out) = OffsetOf(texts, Len(texts)) + Len(texts[Len(texts)])
    /\ \A k \in 1..Len(texts) :
          /\ SubSeq(out, OffsetOf(texts, k) + 1, OffsetOf(texts, k) + Len(texts[k])) = texts[k]
          /\ k < Len(texts) => out[OffsetOf(texts, k) + Len(texts[k]) + 1] = 0

\* C5: the grouped call returns exactly one row per distinct (speaker,
\* term, docket_number) of the table the ungrouped call returns; its text
\* is the texts of the group's rows, in their order, joined with single
\* spaces, and its vote is the vote of the group's first row.
C5_Grouped ==
    (df.status = "ok" /\ df.groupby) =>
        /\ df.rows = get_transcript_df(case, FALSE, df.leftOrder).rows
        /\ \A r \in 1..Len(df.rows) : \E g \in df.groups : SameKey(g, df.rows[r])
        /\ \A g1, g2 \in df.groups : SameKey(g1, g2) => g1 = g2
        /\ \A g \in df.groups :
              LET m == MembersOf(g)
              IN  /\ m /= <<>>
                  /\ g.vote = df.rows[m[1]].vote
                  /\ IsSpaceJoined(g.text, [k \in 1..Len(m) |-> df.rows[m[k]].text])

\* a group of two utterances and two ballots of its speaker: four rows
C5_Witness ==
    /\ df.status = "ok" /\ df.groupby
    /\ \E g \in df.groups :
          /\ df.rows[MembersOf(g)[1]].text /= df.rows[MembersOf(g)[Len(MembersOf(g))]].text
          /\ Len(MembersOf(g)) >= 2
          /\ Len(g.text) >= 3
          /\ df.rows[MembersOf(g)[1]].vote /= df.rows[MembersOf(g)[Len(MembersOf(g))]].vote

====
